---- MODULE Spec2Model ----
(***************************************************************************)
(* pydoit: the Idoit JSON-RPC client of src/pydoit/api.py.                 *)
(*                                                                         *)
(* The state is the client object (url, api_key, username, password,       *)
(* session_id) together with a record of the last public call: the request *)
(* the dispatcher emitted, the response the remote gave, and how the call  *)
(* ended (a returned value or a raised exception).  Every public method is *)
(* one action; the remote's response is an input of the action.            *)
(*                                                                         *)
(* Python values are tagged records, so that None, "", 0 and the 1-tuple   *)
(* (x,) stay distinct from each other and from x.                          *)
(***************************************************************************)
EXTENDS Integers, Sequences, FiniteSets, TLC

VARIABLES url, api_key, username, password, session_id,
          call, request, response, outcome

vars == <<url, api_key, username, password, session_id,
          call, request, response, outcome>>

---------------------------------------------------------------------------
(* Python values                                                           *)

None == [ty |-> "none"]
Str(s) == [ty |-> "str", v |-> s]
PyInt(i) == [ty |-> "int", v |-> i]
Dict(f) == [ty |-> "dict", v |-> f]
Tuple1(x) == [ty |-> "tuple", v |-> <<x>>]

EmptyDict == [k \in {} |-> None]

\* Python's truth value, as `if x:` and `x and y` test it.
Truthy(x) ==
    CASE x.ty = "none" -> FALSE
      [] x.ty = "str" -> x.v # ""
      [] x.ty = "int" -> x.v # 0
      [] x.ty = "dict" -> DOMAIN x.v # {}
      [] x.ty = "tuple" -> Len(x.v) # 0
      [] OTHER -> TRUE

\* How a call ends.
Return(v) == [kind |-> "return", value |-> v]
Raise(e) == [kind |-> "raise", exc |-> e]

\* An exception that carries no attributes (KeyError, TypeError, ...).
Exc(cls) == [ty |-> "exc", cls |-> cls]

IdoitMissingCredentialsError == Exc("IdoitMissingCredentialsError")
IdoitAlreadyLoggedInError == Exc("IdoitAlreadyLoggedInError")

\* IdoitRequestError.__init__: `self.code = code,` and `self.msg = msg,` end
\* in a comma, so both attributes are 1-tuples; data is stored as given.
IdoitRequestError(code, msg, data) ==
    [ty |-> "exc", cls |-> "IdoitRequestError",
     code |-> Tuple1(code), msg |-> Tuple1(msg), data |-> data]

\* x[key] on a Python value: the value, or the exception the subscription raises.
Subscript(x, key) ==
    IF x.ty = "dict"
    THEN IF key \in DOMAIN x.v
         THEN [ok |-> TRUE, v |-> x.v[key]]
         ELSE [ok |-> FALSE, exc |-> Exc("KeyError")]
    ELSE [ok |-> FALSE, exc |-> Exc("TypeError")]

---------------------------------------------------------------------------
(* The inputs                                                              *)

HTTP_OK == 200

Urls == {"https://demo.i-doit.com/src/jsonrpc.php"}
ApiKeys == {Str("c1ia5q")}
Usernames == {None, Str(""), Str("admin")}
Passwords == {None, Str("secret")}
ReqIds == {PyInt(1), PyInt(7)}

\* Bodies the remote can answer with: JSON objects, or text that is not JSON.
Text(s) == [ty |-> "text", v |-> s]
JsonResult(r) == Dict([result |-> r])
JsonError(e) == Dict([error |-> e])
ErrorObject(c, m, d) == Dict([code |-> c, message |-> m, data |-> d])

SessionIds == {Str("abc"), Str("xyz"), Str("")}

Bodies200 ==
    {JsonResult(Dict("session-id" :> s)) : s \in SessionIds}
    \cup {JsonResult(Dict([version |-> Str("1.15")])),
          JsonResult(None),
          JsonError(ErrorObject(PyInt(-1), Str("bad"), None)),
          JsonError(ErrorObject(PyInt(-32600), Str("Invalid request"), Str("detail"))),
          JsonError(Dict([code |-> PyInt(-1), message |-> Str("bad")])),
          Dict([result |-> Str("ok"),
                error |-> ErrorObject(PyInt(-1), Str("bad"), None)]),
          Dict(EmptyDict),
          Text("<html>")}

HttpResponse(status, body) == [ty |-> "response", status_code |-> status, body |-> body]

\* requests.post raised instead of returning a response.
ConnectionFailed == [ty |-> "no_response"]

Responses ==
    {HttpResponse(HTTP_OK, b) : b \in Bodies200}
    \cup {HttpResponse(500, Text("Internal Server Error")),
          HttpResponse(401, JsonError(ErrorObject(PyInt(-32099), Str("auth"), None))),
          ConnectionFailed}

NoRequest == [ty |-> "no_request"]
NoResponse == [ty |-> "not_asked"]

---------------------------------------------------------------------------
(* Idoit._req                                                              *)

\* The headers of a request: the session header if session_id is truthy,
\* else the username/password headers if both are truthy, else neither.
Headers(sid, user, pass) ==
    LET names ==
            IF Truthy(sid)
            THEN {"Content-Type", "X-RPC-Auth-Session"}
            ELSE IF Truthy(user) /\ Truthy(pass)
                 THEN {"Content-Type", "X-RPC-Auth-Username", "X-RPC-Auth-Password"}
                 ELSE {"Content-Type"}
    IN  [k \in names |->
            CASE k = "Content-Type" -> Str("application/json")
              [] k = "X-RPC-Auth-Session" -> sid
              [] k = "X-RPC-Auth-Username" -> user
              [] k = "X-RPC-Auth-Password" -> pass]

\* The JSON body: {**params, "apikey": self.api_key} lets apikey win.
Body(method, req_id, params, key) ==
    [version |-> Str("2.0"),
     method |-> Str(method),
     params |-> [k \in DOMAIN params \cup {"apikey"} |->
                    IF k = "apikey" THEN key ELSE params[k]],
     id |-> req_id]

\* The error branch of a 200 answer: error["code"], error["message"],
\* error["data"] are read in this order, and the first miss raises.
RaiseFromError(error) ==
    LET c == Subscript(error, "code")
        m == Subscript(error, "message")
        d == Subscript(error, "data")
    IN  IF ~c.ok THEN Raise(c.exc)
        ELSE IF ~m.ok THEN Raise(m.exc)
        ELSE IF ~d.ok THEN Raise(d.exc)
        ELSE Raise(IdoitRequestError(c.v, m.v, d.v))

\* Variant of Unwrap with a slip: a non-200 answer raises an error built from
\* the response's status and body instead of the fixed arguments.
Unwrap_RawBody(resp) ==
    IF resp = ConnectionFailed
    THEN Raise(Exc("ConnectionError"))
    ELSE IF resp.status_code = HTTP_OK
         THEN IF resp.body.ty = "text"
              THEN Raise(Exc("JSONDecodeError"))
              ELSE IF "result" \in DOMAIN resp.body.v
                   THEN Return(resp.body.v["result"])
                   ELSE IF "error" \in DOMAIN resp.body.v
                        THEN RaiseFromError(resp.body.v["error"])
                        ELSE Return(None)
         ELSE Raise(IdoitRequestError(PyInt(resp.status_code), Str("Unknown Error"),
                                      resp.body))

\* What _req does with the response.
Unwrap(resp) ==
    IF resp = ConnectionFailed
    THEN Raise(Exc("ConnectionError"))
    ELSE IF resp.status_code = HTTP_OK
         THEN IF resp.body.ty = "text"
              THEN Raise(Exc("JSONDecodeError"))
              ELSE IF "result" \in DOMAIN resp.body.v
                   THEN Return(resp.body.v["result"])
                   ELSE IF "error" \in DOMAIN resp.body.v
                        THEN RaiseFromError(resp.body.v["error"])
                        ELSE Return(None)
         ELSE Raise(IdoitRequestError(Str("-1"), Str("Unknown Error"), None))

\* Variant of _req with a slip: a call that raises drops the session.
_req_ExpiresSession(method, req_id, params, resp) ==
    [request |-> [url |-> url,
                  headers |-> Headers(session_id, username, password),
                  json |-> Body(method, req_id, params, api_key)],
     outcome |-> Unwrap(resp),
     session_id |-> IF Unwrap(resp).kind = "raise" THEN None ELSE session_id]

\* One call of _req on the client: the request it posts, how it ends, and the
\* session_id it leaves on the client (it assigns none).
_req(method, req_id, params, resp) ==
    [request |-> [url |-> url,
                  headers |-> Headers(session_id, username, password),
                  json |-> Body(method, req_id, params, api_key)],
     outcome |-> Unwrap(resp),
     session_id |-> session_id]

---------------------------------------------------------------------------
(* The public methods                                                      *)

\* Idoit.__init__
Init ==
    /\ url \in Urls
    /\ api_key \in ApiKeys
    /\ username \in Usernames
    /\ password \in Passwords
    /\ session_id = None
    /\ call = [op |-> "__init__", pre_session_id |-> None, args |-> EmptyDict]
    /\ request = NoRequest
    /\ response = NoResponse
    /\ outcome = Return(None)

\* The body of a method that forwards to _req and returns its result.  call
\* records the method, its arguments and the session_id it found.
Forward(op, args, method, params, req_id, resp) ==
    LET r == _req(method, req_id, params, resp) IN
    /\ call' = [op |-> op, pre_session_id |-> session_id, args |-> args]
    /\ request' = r.request
    /\ response' = resp
    /\ outcome' = r.outcome
    /\ session_id' = r.session_id

\* Variant of LoginCheck with a slip: the password is not tested.
LoginCheck_UsernameOnly(user, pass, sid) ==
    IF Truthy(user)
    THEN IF sid = None THEN "request" ELSE "already"
    ELSE "missing"

\* Variant of LoginCheck with a slip: an existing session is not tested.
LoginCheck_NoSessionCheck(user, pass, sid) ==
    IF Truthy(user) /\ Truthy(pass)
    THEN "request"
    ELSE "missing"

\* login, lines 87-94: which branch is taken.
LoginCheck(user, pass, sid) ==
    IF Truthy(user) /\ Truthy(pass)
    THEN IF sid = None THEN "request" ELSE "already"
    ELSE "missing"

\* Variant of LoginResult with a slip: the whole result is stored, not
\* result["session-id"].
LoginResult_StoresResult(r) ==
    IF r.outcome.kind = "raise"
    THEN [outcome |-> r.outcome, session_id |-> r.session_id]
    ELSE [outcome |-> Return(None), session_id |-> r.outcome.value]

\* login, lines 89-90, after _req ended as r: an exception of _req propagates;
\* else result["session-id"] is evaluated and assigned to session_id.
LoginResult(r) ==
    IF r.outcome.kind = "raise"
    THEN [outcome |-> r.outcome, session_id |-> r.session_id]
    ELSE LET s == Subscript(r.outcome.value, "session-id") IN
         IF s.ok
         THEN [outcome |-> Return(None), session_id |-> s.v]
         ELSE [outcome |-> Raise(s.exc), session_id |-> r.session_id]

login ==
    \E req_id \in ReqIds, resp \in Responses :
        LET chk == LoginCheck(username, password, session_id)
            r == _req("idoit.login", req_id, EmptyDict, resp)
            done == LoginResult(r)
        IN  /\ call' = [op |-> "login", pre_session_id |-> session_id,
                        args |-> EmptyDict]
            /\ request' = IF chk = "request" THEN r.request ELSE NoRequest
            /\ response' = IF chk = "request" THEN resp ELSE NoResponse
            /\ outcome' = CASE chk = "request" -> done.outcome
                            [] chk = "already" -> Raise(IdoitAlreadyLoggedInError)
                            [] chk = "missing" -> Raise(IdoitMissingCredentialsError)
            /\ session_id' = IF chk = "request" THEN done.session_id ELSE session_id
            /\ UNCHANGED <<url, api_key, username, password>>

\* Variant of LogoutResult with a slip: the session is never cleared.
LogoutResult_KeepsSession(r) ==
    IF r.outcome.kind = "raise"
    THEN [outcome |-> r.outcome, session_id |-> r.session_id]
    ELSE [outcome |-> Return(None), session_id |-> r.session_id]

\* logout, lines 99-100, after _req ended as r: an exception of _req
\* propagates before the assignment; else session_id becomes None.
LogoutResult(r) ==
    IF r.outcome.kind = "raise"
    THEN [outcome |-> r.outcome, session_id |-> r.session_id]
    ELSE [outcome |-> Return(None), session_id |-> None]

logout ==
    \E req_id \in ReqIds, resp \in Responses :
        LET r == _req("idoit.logout", req_id, EmptyDict, resp)
            done == LogoutResult(r)
        IN  /\ call' = [op |-> "logout", pre_session_id |-> session_id,
                        args |-> EmptyDict]
            /\ request' = r.request
            /\ response' = resp
            /\ outcome' = done.outcome
            /\ session_id' = done.session_id
            /\ UNCHANGED <<url, api_key, username, password>>

version ==
    \E req_id \in ReqIds, resp \in Responses :
        /\ Forward("version", EmptyDict, "idoit.version", EmptyDict, req_id, resp)
        /\ UNCHANGED <<url, api_key, username, password>>

Queries == {Str("srv")}

search ==
    \E q \in Queries, req_id \in ReqIds, resp \in Responses :
        /\ Forward("search", [q |-> q], "idoit.search", [q |-> q], req_id, resp)
        /\ UNCHANGED <<url, api_key, username, password>>

constants ==
    \E req_id \in ReqIds, resp \in Responses :
        /\ Forward("constants", EmptyDict, "idoit.constants", EmptyDict, req_id, resp)
        /\ UNCHANGED <<url, api_key, username, password>>

ObjTypes == {Str("C__OBJTYPE__SERVER")}
Titles == {Str("srv1")}
Categories == {None, PyInt(1)}
Purposes == {None}
CmdbStatuses == {None}
Descriptions == {None, Str("rack 4")}
ObjIds == {PyInt(42)}
Statuses == {Str("C__RECORD_STATUS__DELETED")}

\* Variant of ObjectCreateParams with a slip: an optional argument left at
\* None is omitted instead of being passed as None.
ObjectCreateParams_OmitsUnset(obj_type, title, category, purpose, cmdb_status, description) ==
    LET all == [type |-> obj_type, title |-> title, category |-> category,
                purpose |-> purpose, cmdb_status |-> cmdb_status,
                description |-> description]
        keep == {k \in DOMAIN all : k \in {"type", "title"} \/ all[k] # None}
    IN  [k \in keep |-> all[k]]

\* The keyword arguments object_create passes to _req.
ObjectCreateParams(obj_type, title, category, purpose, cmdb_status, description) ==
    [type |-> obj_type, title |-> title, category |-> category,
     purpose |-> purpose, cmdb_status |-> cmdb_status, description |-> description]

object_create ==
    \E obj_type \in ObjTypes, title \in Titles, category \in Categories,
       purpose \in Purposes, cmdb_status \in CmdbStatuses,
       description \in Descriptions, req_id \in ReqIds, resp \in Responses :
        /\ Forward("object_create",
                   [obj_type |-> obj_type, title |-> title, category |-> category,
                    purpose |-> purpose, cmdb_status |-> cmdb_status,
                    description |-> description],
                   "cmdb.object.create",
                   ObjectCreateParams(obj_type, title, category, purpose,
                                      cmdb_status, description),
                   req_id, resp)
        /\ UNCHANGED <<url, api_key, username, password>>

object_read ==
    \E obj_id \in ObjIds, req_id \in ReqIds, resp \in Responses :
        /\ Forward("object_read", [obj_id |-> obj_id], "cmdb.object.read",
                   [id |-> obj_id], req_id, resp)
        /\ UNCHANGED <<url, api_key, username, password>>

object_update ==
    \E obj_id \in ObjIds, title \in Titles, req_id \in ReqIds, resp \in Responses :
        /\ Forward("object_update", [obj_id |-> obj_id, title |-> title],
                   "cmdb.object.update",
                   [id |-> obj_id, title |-> title], req_id, resp)
        /\ UNCHANGED <<url, api_key, username, password>>

object_delete ==
    \E obj_id \in ObjIds, status \in Statuses, req_id \in ReqIds, resp \in Responses :
        /\ Forward("object_delete", [obj_id |-> obj_id, status |-> status],
                   "cmdb.object.delete",
                   [id |-> obj_id, status |-> status], req_id, resp)
        /\ UNCHANGED <<url, api_key, username, password>>

object_recycle ==
    \E obj_id \in ObjIds, req_id \in ReqIds, resp \in Responses :
        /\ Forward("object_recycle", [obj_id |-> obj_id], "cmdb.object.recycle",
                   [object |-> obj_id], req_id, resp)
        /\ UNCHANGED <<url, api_key, username, password>>

object_archive ==
    \E obj_id \in ObjIds, req_id \in ReqIds, resp \in Responses :
        /\ Forward("object_archive", [obj_id |-> obj_id], "cmdb.object.archive",
                   [object |-> obj_id], req_id, resp)
        /\ UNCHANGED <<url, api_key, username, password>>

object_purge ==
    \E obj_id \in ObjIds, req_id \in ReqIds, resp \in Responses :
        /\ Forward("object_purge", [obj_id |-> obj_id], "cmdb.object.purge",
                   [object |-> obj_id], req_id, resp)
        /\ UNCHANGED <<url, api_key, username, password>>

object_mark_as_template ==
    \E obj_id \in ObjIds, req_id \in ReqIds, resp \in Responses :
        /\ Forward("object_mark_as_template", [obj_id |-> obj_id],
                   "cmdb.object.markAsTemplate", [object |-> obj_id], req_id, resp)
        /\ UNCHANGED <<url, api_key, username, password>>

Next ==
    \/ login
    \/ logout
    \/ version
    \/ search
    \/ constants
    \/ object_create
    \/ object_read
    \/ object_update
    \/ object_delete
    \/ object_recycle
    \/ object_archive
    \/ object_purge
    \/ object_mark_as_template

Spec == Init /\ [][Next]_vars

---------------------------------------------------------------------------
(* Properties                                                              *)

\* The last call reached the dispatcher, which posted a request.
Sent == request # NoRequest

\* The remote answered the last request with an HTTP response.
Answered == Sent /\ response.ty = "response"

AuthHeaders == {"X-RPC-Auth-Session", "X-RPC-Auth-Username", "X-RPC-Auth-Password"}

\* The authentication headers of the last request.
AuthOf(h) == [k \in DOMAIN h \cap AuthHeaders |-> h[k]]

\* C1: every request uses exactly one authentication mode, by precedence: a
\* session id that is set (not None) gives the session header and no
\* username/password; else username and password both configured give the
\* username/password headers and no session header; else neither.
C1_AuthPrecedence ==
    Sent =>
        LET sid == call.pre_session_id IN
        AuthOf(request.headers) =
            IF sid # None
            THEN [k \in {"X-RPC-Auth-Session"} |-> sid]
            ELSE IF Truthy(username) /\ Truthy(password)
                 THEN [k \in {"X-RPC-Auth-Username", "X-RPC-Auth-Password"} |->
                          IF k = "X-RPC-Auth-Username" THEN username ELSE password]
                 ELSE EmptyDict

\* C2: login() on a client without both username and password fails with
\* IdoitMissingCredentialsError (and posts nothing, and leaves the session).
C2_LoginMissingCredentials ==
    (call.op = "login" /\ ~(Truthy(username) /\ Truthy(password))) =>
        /\ outcome = Raise(IdoitMissingCredentialsError)
        /\ ~Sent
        /\ session_id = call.pre_session_id

\* A login() with a username and no password, which raised MissingCredentials.
C2_Witness ==
    /\ call.op = "login"
    /\ username = Str("admin")
    /\ password = None
    /\ outcome = Raise(IdoitMissingCredentialsError)

\* C3: login() while a session is set fails with IdoitAlreadyLoggedInError
\* (and posts nothing, and leaves the session).
C3_LoginAlreadyLoggedIn ==
    (call.op = "login" /\ call.pre_session_id # None) =>
        /\ outcome = Raise(IdoitAlreadyLoggedInError)
        /\ ~Sent
        /\ session_id = call.pre_session_id

\* A second login() after a successful one: the session "abc" was set and the
\* call raised AlreadyLoggedIn.
C3_Witness ==
    /\ call.op = "login"
    /\ call.pre_session_id = Str("abc")
    /\ outcome = Raise(IdoitAlreadyLoggedInError)

\* The last call was a login() that the remote answered with HTTP 200 and a
\* result that contains a session identifier.
LoginAnsweredWithSession ==
    /\ call.op = "login"
    /\ Answered
    /\ response.status_code = HTTP_OK
    /\ response.body.ty = "dict"
    /\ "result" \in DOMAIN response.body.v
    /\ response.body.v["result"].ty = "dict"
    /\ "session-id" \in DOMAIN response.body.v["result"].v

\* C4: after a login() answered with HTTP 200 and a result containing the
\* session identifier s, the client's session is s and login() returned.
C4_LoginStoresSession ==
    LoginAnsweredWithSession =>
        /\ session_id = response.body.v["result"].v["session-id"]
        /\ outcome = Return(None)

\* A login() answered with {"result": {"session-id": "abc"}}; the session is "abc".
C4_Witness ==
    /\ LoginAnsweredWithSession
    /\ response.body = JsonResult(Dict("session-id" :> Str("abc")))
    /\ call.pre_session_id = None
    /\ session_id = Str("abc")

\* C5: after logout() has returned, the session is None whatever it was before.
C5_LogoutClearsSession ==
    (call.op = "logout" /\ outcome.kind = "return") => session_id = None

\* A logout() that returned, called while the session was "abc".
C5_Witness ==
    /\ call.op = "logout"
    /\ outcome.kind = "return"
    /\ call.pre_session_id = Str("abc")
    /\ session_id = None

\* The remote answered HTTP 200 with exactly {"error": {code, message, data}}.
AnsweredErrorEnvelope ==
    /\ Answered
    /\ response.status_code = HTTP_OK
    /\ response.body.ty = "dict"
    /\ DOMAIN response.body.v = {"error"}
    /\ response.body.v["error"].ty = "dict"
    /\ DOMAIN response.body.v["error"].v = {"code", "message", "data"}

\* C6: an HTTP 200 answer {"error": {"code": c, "message": m, "data": d}}
\* makes the call raise IdoitRequestError whose code is c and whose message is m.
C6_ErrorExposesCodeAndMessage ==
    AnsweredErrorEnvelope =>
        /\ outcome.kind = "raise"
        /\ outcome.exc.cls = "IdoitRequestError"
        /\ outcome.exc.code = response.body.v["error"].v["code"]
        /\ outcome.exc.msg = response.body.v["error"].v["message"]

\* The remote answered with a status other than 200.
AnsweredNon200 == Answered /\ response.status_code # HTTP_OK

\* The exception e carries the response r: its status or its body is one of
\* e's attributes, as given or wrapped in a 1-tuple.
Carries(e, r) ==
    LET of == {PyInt(r.status_code), Str(ToString(r.status_code)), r.body}
             \cup (IF r.body.ty = "text" THEN {Str(r.body.v)} ELSE {})
    IN  \E x \in of : \E a \in {e.code, e.msg, e.data} : a = x \/ a = Tuple1(x)

\* C7 as stated: a non-200 answer makes the dispatcher raise a request error
\* that carries the raw body or the status of that response.
C7_Non200CarriesResponse ==
    AnsweredNon200 =>
        /\ outcome.kind = "raise"
        /\ outcome.exc.cls = "IdoitRequestError"
        /\ Carries(outcome.exc, response)

\* C7, amended: a non-200 answer makes the dispatcher raise the
\* IdoitRequestError built from the fixed arguments "-1", "Unknown Error",
\* None, whatever the response's status and body.
C7_Non200RaisesUnknownError ==
    AnsweredNon200 =>
        outcome = Raise(IdoitRequestError(Str("-1"), Str("Unknown Error"), None))

\* A call answered with HTTP 500 that raised the fixed error.
C7_Witness ==
    /\ AnsweredNon200
    /\ response = HttpResponse(500, Text("Internal Server Error"))
    /\ outcome.kind = "raise"
    /\ outcome.exc.cls = "IdoitRequestError"
    /\ outcome.exc.data = None

OtherOps ==
    {"version", "search", "constants", "object_create", "object_read",
     "object_update", "object_delete", "object_recycle", "object_archive",
     "object_purge", "object_mark_as_template"}

\* C8: the session changes only by construction (None), by a login() that
\* returns (the returned identifier) and by logout() (None); every other
\* method, returning or raising, and every login() that raises leave it as
\* it was.
C8_SessionFrame ==
    /\ call.op = "__init__" => session_id = None
    /\ call.op \in OtherOps => session_id = call.pre_session_id
    /\ (call.op = "login" /\ outcome.kind = "raise") =>
           session_id = call.pre_session_id
    /\ (call.op = "login" /\ outcome.kind = "return") =>
           /\ LoginAnsweredWithSession
           /\ session_id = response.body.v["result"].v["session-id"]
    /\ call.op = "logout" => session_id \in {None, call.pre_session_id}

\* A search() that raised while the session was "abc", and left it "abc".
C8_Witness ==
    /\ call.op = "search"
    /\ outcome.kind = "raise"
    /\ call.pre_session_id = Str("abc")
    /\ session_id = Str("abc")

\* The last call was object_create with every optional argument unset.
ObjectCreateDefaults ==
    /\ call.op = "object_create"
    /\ call.args.category = None
    /\ call.args.purpose = None
    /\ call.args.cmdb_status = None
    /\ call.args.description = None

\* C9: object_create(type, title) with the optional arguments unset posts one
\* request with method cmdb.object.create and params exactly {type, title,
\* category: None, purpose: None, cmdb_status: None, description: None,
\* apikey: the client's key}.
C9_ObjectCreateParams ==
    ObjectCreateDefaults =>
        /\ Sent
        /\ request.json.method = Str("cmdb.object.create")
        /\ request.json.params =
               [type |-> call.args.obj_type, title |-> call.args.title,
                category |-> None, purpose |-> None, cmdb_status |-> None,
                description |-> None, apikey |-> api_key]

\* object_create("C__OBJTYPE__SERVER", "srv1") was called and posted a request.
C9_Witness ==
    /\ ObjectCreateDefaults
    /\ call.args.obj_type = Str("C__OBJTYPE__SERVER")
    /\ call.args.title = Str("srv1")
    /\ Sent
    /\ "apikey" \in DOMAIN request.json.params

\* C10: logout() posts idoit.logout first, the request still carrying the
\* current session; if the request raises, the error propagates and the
\* session keeps its value; the session is cleared only when it returned.
C10_LogoutAfterRemote ==
    call.op = "logout" =>
        /\ Sent
        /\ request.json.method = Str("idoit.logout")
        /\ call.pre_session_id # None =>
               /\ "X-RPC-Auth-Session" \in DOMAIN request.headers
               /\ request.headers["X-RPC-Auth-Session"] = call.pre_session_id
        /\ outcome.kind = "raise" =>
               /\ outcome = Unwrap(response)
               /\ session_id = call.pre_session_id
        /\ session_id # call.pre_session_id => outcome.kind = "return"

====
